---- MODULE Spec2Model ----
(***************************************************************************)
(* constify: the macros constify!, try_constify! and __impl_constify!      *)
(* (src/src/lib.rs).                                                       *)
(*                                                                         *)
(* An invocation is modelled in three phases:                              *)
(*   1. macro expansion: the written declarations are packed into a braced *)
(*      list and __impl_constify! rewrites them into a tree of nested      *)
(*      `match` expressions;                                               *)
(*   2. the build: the compiler's exhaustiveness check of every emitted    *)
(*      `match`;                                                           *)
(*   3. the run: the tree is evaluated, one `match` at a time, each        *)
(*      evaluation of a runtime expression being a visible side effect.    *)
(*                                                                         *)
(* Values: a bool is 0 (false) or 1 (true); a u32 is a small natural.      *)
(* The back-tick cannot be written in a string here: BackTick stands for   *)
(* it in the failure message.                                              *)
(***************************************************************************)
EXTENDS Naturals, Sequences, FiniteSets

VARIABLES
    pc,        \* "source" | "expanded" | "rejected" | "run" | "done"
    source,    \* the invocation as written: [decls, return]
    mode,      \* "none" | "normal" | "error": which entry macro was invoked
    code,      \* the expression still to be evaluated (a node of the tree)
    scope,     \* the const items in scope, outermost first
    evals,     \* the runtime expressions evaluated so far, with their values
    bodyEvals, \* how many times the body block has been evaluated
    oks,       \* the Ok(..) wrappers applied around the value produced
    result     \* [kind, val, msg]: kind is "none" | "value" | "Err"

vars == <<pc, source, mode, code, scope, evals, bodyEvals, oks, result>>

----------------------------------------------------------------------------
(* Bounds of the model *)

\* the longest declaration sequence of an invocation
MaxDecls == 2

\* the longest candidate list of a declaration
MaxCands == 2

----------------------------------------------------------------------------
(* The inputs: declarations and the trailing expression *)

\* the identifiers of the declarations, by position (pairwise distinct)
VarNames == <<"A", "B", "C", "D">>

Types == {"bool", "u32"}

\* the values a runtime expression of the type can have (u32: a sample)
TypeValues(ty) == IF ty = "bool" THEN {0, 1} ELSE {1, 2, 3}

\* the literals the candidate lists are written with
CandLits(ty) == IF ty = "bool" THEN {0, 1} ELSE {1, 2}

\* $($const_expr:expr),+ : a non-empty list of literals
CandLists(ty) ==
    UNION {[1..k -> CandLits(ty)] : k \in 1..MaxCands}

\* the function the trailing expression calls: sum_impl::<A, B>(a, b) over
\* bool consts, add_impl::<A, B>() over u32 consts
BodyFn(ty) == IF ty = "bool" THEN "sum_impl" ELSE "add_impl"

\* the invocations: n declarations of one type, then the trailing expression
Sources ==
    UNION {UNION {
        {[decls |-> [j \in 1..n |->
                        [const_var  |-> VarNames[j],
                         const_ty   |-> ty,
                         match_val  |-> j,
                         const_expr |-> cands[j]]],
          return |-> [fn |-> BodyFn(ty),
                      consts |-> [j \in 1..n |-> VarNames[j]]]]
            : cands \in [1..n -> CandLists(ty)]}
        : n \in 0..MaxDecls} : ty \in Types}

----------------------------------------------------------------------------
(* Macro expansion *)

\* the stand-in for the back-tick character
BackTick == "<bt>"

\* stringify!($const_var)
Stringify(const_var) == const_var

\* concat!("unexpected value for `", stringify!($const_var), "`")
ErrMsg(const_var) ==
    "unexpected value for " \o BackTick \o Stringify(const_var) \o BackTick

\* a normalization that packs the declarations in the reverse order
NormalizeReversed(decls) ==
    [j \in 1..Len(decls) |-> [brace |-> decls[Len(decls) + 1 - j]]]

\* [$({const $const_var: $const_ty = $match_val => $($const_expr),*;})*]
Normalize(decls) == [j \in 1..Len(decls) |-> [brace |-> decls[j]]]

\* { $return }
Block(return) == [block |-> return]

\* const $const_var: $const_ty = $const_expr;
ConstItem(d, c) ==
    [const_var |-> d.const_var, const_ty |-> d.const_ty, value |-> c]

\* what a node's unused block field holds
NoBlock == [fn |-> "", consts |-> <<>>]

RECURSIVE ImplConstify(_, _, _)

\* @normal [] $block  =>  $block
NormalTerminal(block) ==
    [kind |-> "block", wrap |-> 0, block |-> block.block,
     match_val |-> 0, arms |-> <<>>, wild |-> <<>>, msg |-> ""]

\* @error [] $block  =>  Ok($block)
ErrorTerminal(block) ==
    [kind |-> "block", wrap |-> 1, block |-> block.block,
     match_val |-> 0, arms |-> <<>>, wild |-> <<>>, msg |-> ""]

\* ::core::result::Result::Err(concat!(..)): the expression of the `_` arm
ErrExpr(const_var) ==
    [kind |-> "err", wrap |-> 0, block |-> NoBlock,
     match_val |-> 0, arms |-> <<>>, wild |-> <<>>, msg |-> ErrMsg(const_var)]

\* a @normal rule whose arms all bind the first candidate
NormalRuleBindsFirst(d, rest, block) ==
    [kind |-> "match", wrap |-> 0, block |-> NoBlock,
     match_val |-> d.match_val,
     arms |-> [k \in 1..Len(d.const_expr) |->
                 [pat  |-> d.const_expr[k],
                  item |-> ConstItem(d, d.const_expr[1]),
                  body |-> ImplConstify("normal", rest, block)]],
     wild |-> <<>>, msg |-> ""]

\* a @normal rule that ends its match with the catch-all arm of @error
NormalRuleWithCatchAll(d, rest, block) ==
    [kind |-> "match", wrap |-> 0, block |-> NoBlock,
     match_val |-> d.match_val,
     arms |-> [k \in 1..Len(d.const_expr) |->
                 [pat  |-> d.const_expr[k],
                  item |-> ConstItem(d, d.const_expr[k]),
                  body |-> ImplConstify("normal", rest, block)]],
     wild |-> <<ErrExpr(d.const_var)>>, msg |-> ""]

\* @normal const ..; $rest $block  =>  match with one arm per candidate
NormalRule(d, rest, block) ==
    [kind |-> "match", wrap |-> 0, block |-> NoBlock,
     match_val |-> d.match_val,
     arms |-> [k \in 1..Len(d.const_expr) |->
                 [pat  |-> d.const_expr[k],
                  item |-> ConstItem(d, d.const_expr[k]),
                  body |-> ImplConstify("normal", rest, block)]],
     wild |-> <<>>, msg |-> ""]

\* an @error rule whose message stringifies $const_ty instead of $const_var
ErrorRuleNamesType(d, rest, block) ==
    [kind |-> "match", wrap |-> 0, block |-> NoBlock,
     match_val |-> d.match_val,
     arms |-> [k \in 1..Len(d.const_expr) |->
                 [pat  |-> d.const_expr[k],
                  item |-> ConstItem(d, d.const_expr[k]),
                  body |-> ImplConstify("error", rest, block)]],
     wild |-> <<ErrExpr(d.const_ty)>>, msg |-> ""]

\* an @error rule whose arms all bind the first candidate
ErrorRuleBindsFirst(d, rest, block) ==
    [kind |-> "match", wrap |-> 0, block |-> NoBlock,
     match_val |-> d.match_val,
     arms |-> [k \in 1..Len(d.const_expr) |->
                 [pat  |-> d.const_expr[k],
                  item |-> ConstItem(d, d.const_expr[1]),
                  body |-> ImplConstify("error", rest, block)]],
     wild |-> <<ErrExpr(d.const_var)>>, msg |-> ""]

\* an @error rule whose catch-all arm expands the remaining declarations
ErrorRuleWildRecurses(d, rest, block) ==
    [kind |-> "match", wrap |-> 0, block |-> NoBlock,
     match_val |-> d.match_val,
     arms |-> [k \in 1..Len(d.const_expr) |->
                 [pat  |-> d.const_expr[k],
                  item |-> ConstItem(d, d.const_expr[k]),
                  body |-> ImplConstify("error", rest, block)]],
     wild |-> <<ImplConstify("error", rest, block)>>, msg |-> ""]

\* an @error rule that wraps the match of every level in Ok(..)
ErrorRuleWrapsMatch(d, rest, block) ==
    [kind |-> "match", wrap |-> 1, block |-> NoBlock,
     match_val |-> d.match_val,
     arms |-> [k \in 1..Len(d.const_expr) |->
                 [pat  |-> d.const_expr[k],
                  item |-> ConstItem(d, d.const_expr[k]),
                  body |-> ImplConstify("error", rest, block)]],
     wild |-> <<ErrExpr(d.const_var)>>, msg |-> ""]

\* @error const ..; $rest $block  =>  the same arms, then `_ => Err(msg)`
ErrorRule(d, rest, block) ==
    [kind |-> "match", wrap |-> 0, block |-> NoBlock,
     match_val |-> d.match_val,
     arms |-> [k \in 1..Len(d.const_expr) |->
                 [pat  |-> d.const_expr[k],
                  item |-> ConstItem(d, d.const_expr[k]),
                  body |-> ImplConstify("error", rest, block)]],
     wild |-> <<ErrExpr(d.const_var)>>, msg |-> ""]

\* a peel that pulls off the last declaration instead of the first
PeelRuleLast(m, list, block) ==
    IF m = "normal"
    THEN NormalRule(list[Len(list)].brace, SubSeq(list, 1, Len(list) - 1), block)
    ELSE ErrorRule(list[Len(list)].brace, SubSeq(list, 1, Len(list) - 1), block)

\* @$mode [{ const ..; } $($rest)*] $block: pull off the first declaration
PeelRule(m, list, block) ==
    IF m = "normal"
    THEN NormalRule(Head(list).brace, Tail(list), block)
    ELSE ErrorRule(Head(list).brace, Tail(list), block)

\* __impl_constify! { @$mode [..] $block }
ImplConstify(m, list, block) ==
    IF list # <<>>
    THEN PeelRule(m, list, block)
    ELSE IF m = "normal" THEN NormalTerminal(block) ELSE ErrorTerminal(block)

----------------------------------------------------------------------------
(* The build and the run of the expanded code *)

\* the type of the runtime expression a match dispatches on
ScrutineeType(node) == source.decls[node.match_val].const_ty

\* the patterns of the candidate arms of a match
ArmPats(node) == {node.arms[k].pat : k \in 1..Len(node.arms)}

\* the compiler accepts a match only if its arms cover every value
RECURSIVE Exhaustive(_)
Exhaustive(node) ==
    IF node.kind # "match"
    THEN TRUE
    ELSE /\ \/ node.wild # <<>>
            \/ TypeValues(ScrutineeType(node)) \subseteq ArmPats(node)
         /\ \A k \in 1..Len(node.arms) : Exhaustive(node.arms[k].body)
         /\ \A k \in 1..Len(node.wild) : Exhaustive(node.wild[k])

\* the first arm, in the order written, whose pattern equals v (0: none)
SelectArm(node, v) ==
    IF v \in ArmPats(node)
    THEN CHOOSE k \in 1..Len(node.arms) :
            /\ node.arms[k].pat = v
            /\ \A i \in 1..(k - 1) : node.arms[i].pat # v
    ELSE 0

\* the value a name resolves to: the innermost item of that name
Lookup(sc, name) ==
    LET hits == {i \in 1..Len(sc) : sc[i].const_var = name}
    IN  IF hits = {} THEN 99
        ELSE sc[CHOOSE i \in hits : \A h \in hits : h <= i].value

\* the runtime arguments a and b of sum(a, b, add_a, add_b), and on
SumArg(j) == j + 2

RECURSIVE SumOver(_, _, _)
SumOver(fn, consts, sc) ==
    IF consts = <<>> THEN 0
    ELSE LET j == Len(consts)
             c == Lookup(sc, consts[j])
         IN  SumOver(fn, SubSeq(consts, 1, j - 1), sc)
             + (IF fn = "sum_impl" THEN (IF c = 1 THEN SumArg(j) ELSE 0) ELSE c)

\* the value of the trailing expression under the consts in scope
BodyValue(return, sc) == SumOver(return.fn, return.consts, sc)

NoResult == [kind |-> "none", val |-> 0, msg |-> ""]

\* no code yet: the macro has not been expanded
NoCode ==
    [kind |-> "none", wrap |-> 0, block |-> NoBlock,
     match_val |-> 0, arms |-> <<>>, wild |-> <<>>, msg |-> ""]

\* the evaluation of a whole expression on the values vals that its runtime
\* expressions yield, in the order they are evaluated
RECURSIVE Exec(_, _, _, _, _)
Exec(node, vals, sc, ev, ok) ==
    IF node.kind = "block"
    THEN [kind |-> "value", val |-> BodyValue(node.block, sc), msg |-> "",
          scope |-> sc, evals |-> ev, oks |-> ok + node.wrap, bodyEvals |-> 1]
    ELSE IF node.kind = "err"
    THEN [kind |-> "Err", val |-> 0, msg |-> node.msg,
          scope |-> sc, evals |-> ev, oks |-> ok + node.wrap, bodyEvals |-> 0]
    ELSE IF node.kind # "match" \/ vals = <<>>
    THEN [kind |-> "none", val |-> 0, msg |-> "",
          scope |-> sc, evals |-> ev, oks |-> ok, bodyEvals |-> 0]
    ELSE LET v   == Head(vals)
             k   == SelectArm(node, v)
             ev2 == Append(ev, [expr |-> node.match_val, val |-> v])
         IN  IF k # 0
             THEN Exec(node.arms[k].body, Tail(vals),
                       Append(sc, node.arms[k].item), ev2, ok + node.wrap)
             ELSE IF node.wild # <<>>
             THEN Exec(node.wild[1], Tail(vals), sc, ev2, ok + node.wrap)
             ELSE [kind |-> "none", val |-> 0, msg |-> "",
                   scope |-> sc, evals |-> ev2, oks |-> ok, bodyEvals |-> 0]

Init ==
    /\ pc = "source"
    /\ source \in Sources
    /\ mode = "none"
    /\ code = NoCode
    /\ scope = <<>>
    /\ evals = <<>>
    /\ bodyEvals = 0
    /\ oks = 0
    /\ result = NoResult

\* constify! { decls; return }
Constify ==
    /\ pc = "source"
    /\ pc' = "expanded"
    /\ mode' = "normal"
    /\ code' = ImplConstify("normal", Normalize(source.decls), Block(source.return))
    /\ UNCHANGED <<source, scope, evals, bodyEvals, oks, result>>

\* try_constify! { decls; return }
TryConstify ==
    /\ pc = "source"
    /\ pc' = "expanded"
    /\ mode' = "error"
    /\ code' = ImplConstify("error", Normalize(source.decls), Block(source.return))
    /\ UNCHANGED <<source, scope, evals, bodyEvals, oks, result>>

\* the compiler checks the emitted matches: a non-exhaustive one fails the build
Build ==
    /\ pc = "expanded"
    /\ pc' = IF Exhaustive(code) THEN "run" ELSE "rejected"
    /\ UNCHANGED <<source, mode, code, scope, evals, bodyEvals, oks, result>>

\* match $match_val { $const_expr => { const ..; <rest> } .. }: the runtime
\* expression is evaluated and a candidate arm is entered
MatchArm ==
    /\ pc = "run"
    /\ code.kind = "match"
    /\ \E v \in TypeValues(ScrutineeType(code)) :
          LET k == SelectArm(code, v)
          IN  /\ k # 0
              /\ evals' = Append(evals, [expr |-> code.match_val, val |-> v])
              /\ scope' = Append(scope, code.arms[k].item)
              /\ code' = code.arms[k].body
    /\ oks' = oks + code.wrap
    /\ UNCHANGED <<pc, source, mode, bodyEvals, result>>

\* a catch-all arm that falls into the first candidate's arm
MatchWildFallsThrough ==
    /\ pc = "run"
    /\ code.kind = "match"
    /\ code.wild # <<>>
    /\ \E v \in TypeValues(ScrutineeType(code)) :
          /\ SelectArm(code, v) = 0
          /\ evals' = Append(evals, [expr |-> code.match_val, val |-> v])
    /\ code' = code.arms[1].body
    /\ scope' = Append(scope, code.arms[1].item)
    /\ oks' = oks + code.wrap
    /\ UNCHANGED <<pc, source, mode, bodyEvals, result>>

\* match $match_val { .. _ => .. }: the runtime expression is evaluated and
\* no candidate equals it, the catch-all arm is entered
MatchWild ==
    /\ pc = "run"
    /\ code.kind = "match"
    /\ code.wild # <<>>
    /\ \E v \in TypeValues(ScrutineeType(code)) :
          /\ SelectArm(code, v) = 0
          /\ evals' = Append(evals, [expr |-> code.match_val, val |-> v])
    /\ code' = code.wild[1]
    /\ oks' = oks + code.wrap
    /\ UNCHANGED <<pc, source, mode, scope, bodyEvals, result>>

\* ::core::result::Result::Err(concat!(..)): the value of the invocation
EvalErr ==
    /\ pc = "run"
    /\ code.kind = "err"
    /\ result' = [kind |-> "Err", val |-> 0, msg |-> code.msg]
    /\ oks' = oks + code.wrap
    /\ pc' = "done"
    /\ UNCHANGED <<source, mode, code, scope, evals, bodyEvals>>

\* $block, or Ok($block): the leaf, the value of the invocation
EvalBlock ==
    /\ pc = "run"
    /\ code.kind = "block"
    /\ bodyEvals' = bodyEvals + 1
    /\ result' = [kind |-> "value", val |-> BodyValue(code.block, scope), msg |-> ""]
    /\ oks' = oks + code.wrap
    /\ pc' = "done"
    /\ UNCHANGED <<source, mode, code, scope, evals>>

Next ==
    \/ Constify
    \/ TryConstify
    \/ Build
    \/ MatchArm
    \/ MatchWild
    \/ EvalErr
    \/ EvalBlock

Spec == Init /\ [][Next]_vars

----------------------------------------------------------------------------
(* What the claims speak of *)

Decls == source.decls
NDecls == Len(source.decls)

\* the candidates of declaration j, as a set
CandSet(j) == {Decls[j].const_expr[k] : k \in 1..Len(Decls[j].const_expr)}

\* the values the evaluated runtime expressions yielded, in evaluation order
Vals == [i \in 1..Len(evals) |-> evals[i].val]

\* the i-th evaluation was of declaration i's expression and matched a candidate
MatchedAt(i) == evals[i].expr = i /\ evals[i].val \in CandSet(i)

\* the i-th evaluation was of declaration i's expression and matched no candidate
MismatchedAt(i) == evals[i].expr = i /\ evals[i].val \notin CandSet(i)

\* the invocation has returned
Returned == pc = "done"

\* the value of the trailing expression, from the runtime values themselves
RECURSIVE ExpectedBody(_, _)
ExpectedBody(fn, vals) ==
    IF vals = <<>> THEN 0
    ELSE LET j == Len(vals)
         IN  ExpectedBody(fn, SubSeq(vals, 1, j - 1))
             + (IF fn = "sum_impl"
                THEN (IF vals[j] = 1 THEN j + 2 ELSE 0)
                ELSE vals[j])

\* the number of leaves (instantiations of the body) of an expression
RECURSIVE Leaves(_)
RECURSIVE LeavesOfArms(_)
LeavesOfArms(arms) ==
    IF arms = <<>> THEN 0
    ELSE Leaves(Head(arms).body) + LeavesOfArms(Tail(arms))
RECURSIVE LeavesOfWild(_)
LeavesOfWild(wild) ==
    IF wild = <<>> THEN 0
    ELSE Leaves(Head(wild)) + LeavesOfWild(Tail(wild))
Leaves(node) ==
    IF node.kind = "block" THEN 1
    ELSE IF node.kind = "match"
    THEN LeavesOfArms(node.arms) + LeavesOfWild(node.wild)
    ELSE 0

\* the number of nested dispatch levels of an expression
RECURSIVE Depth(_)
RECURSIVE DepthOfArms(_)
DepthOfArms(arms) ==
    IF arms = <<>> THEN 0
    ELSE LET a == Depth(Head(arms).body)
             b == DepthOfArms(Tail(arms))
         IN  IF a >= b THEN a ELSE b
Depth(node) ==
    IF node.kind = "match" THEN 1 + DepthOfArms(node.arms) ELSE 0

\* the product of the candidate-list lengths of declarations j..n
RECURSIVE CandProduct(_)
CandProduct(j) ==
    IF j > NDecls THEN 1 ELSE Len(Decls[j].const_expr) * CandProduct(j + 1)

\* node is the dispatch tree of declarations j..n: at every level one arm per
\* candidate, in the order listed, and below the last level the body
RECURSIVE LevelsFrom(_, _)
LevelsFrom(node, j) ==
    IF j > NDecls
    THEN node.kind = "block" /\ node.block = source.return
    ELSE /\ node.kind = "match"
         /\ node.match_val = Decls[j].match_val
         /\ Len(node.arms) = Len(Decls[j].const_expr)
         /\ \A k \in 1..Len(node.arms) :
               /\ node.arms[k].pat = Decls[j].const_expr[k]
               /\ LevelsFrom(node.arms[k].body, j + 1)

\* every Ok(..) of the expression is around a body block, one per block
RECURSIVE OkAtLeavesOnly(_)
OkAtLeavesOnly(node) ==
    IF node.kind = "block" THEN node.wrap = 1
    ELSE /\ node.wrap = 0
         /\ \A k \in 1..Len(node.arms) : OkAtLeavesOnly(node.arms[k].body)
         /\ \A k \in 1..Len(node.wild) : node.wild[k].kind = "err"
                                         /\ node.wild[k].wrap = 0

\* the name is bound by some const item in scope
Bound(sc, name) == \E i \in 1..Len(sc) : sc[i].const_var = name

\* every evaluated runtime value equals a candidate of its declaration
AllMatched == \A i \in 1..Len(evals) : evals[i].val \in CandSet(evals[i].expr)

\* the first evaluation whose value equals no candidate of its declaration
FirstMismatch ==
    CHOOSE i \in 1..Len(evals) :
        /\ evals[i].val \notin CandSet(evals[i].expr)
        /\ \A k \in 1..(i - 1) : evals[k].val \in CandSet(evals[k].expr)

\* the failure message for a declared name, written out
MessageFor(name) == "unexpected value for " \o BackTick \o name \o BackTick

\* the two expansions of the invocation, evaluated on the values of this run
NormalRun ==
    Exec(ImplConstify("normal", Normalize(Decls), Block(source.return)),
         Vals, <<>>, <<>>, 0)
ErrorRun ==
    Exec(ImplConstify("error", Normalize(Decls), Block(source.return)),
         Vals, <<>>, <<>>, 0)

----------------------------------------------------------------------------
(* The claims *)

\* C1: a returned try_constify invocation is Ok(body value) exactly when every
\* declaration's runtime value equals one of its candidates, and is otherwise
\* exactly one Err whose message is "unexpected value for `<name>`" with
\* <name> the first declaration, in declared order, that matched no candidate,
\* and the name of no other declaration.
C1_TryConstifyResult ==
    (mode = "error" /\ Returned) =>
        /\ \A i \in 1..Len(evals) : evals[i].expr = i
        /\ IF AllMatched
           THEN /\ Len(evals) = NDecls
                /\ result.kind = "value"
                /\ oks = 1
                /\ result.val = ExpectedBody(source.return.fn, Vals)
           ELSE /\ result.kind = "Err"
                /\ oks = 0
                /\ result.msg = MessageFor(Decls[FirstMismatch].const_var)
                /\ \A j \in 1..NDecls :
                      j # FirstMismatch => result.msg # MessageFor(Decls[j].const_var)

\* C1 witness: of two declarations the first matched no candidate and the
\* invocation returned Err
C1_Witness ==
    /\ mode = "error" /\ Returned /\ result.kind = "Err"
    /\ NDecls = 2 /\ Len(evals) = 1
    /\ result.msg = MessageFor("A")

\* C2: a returned constify invocation reached one leaf and evaluated the body
\* once, with every declared name bound to the candidate equal to that
\* declaration's runtime value; its result is the body's value under those
\* bindings (the two-flag sum gives 0, 3, 4, 7 for a = 3, b = 4).
C2_ConstifyCorrect ==
    /\ mode = "normal" => bodyEvals <= 1 /\ (bodyEvals = 1 => Returned)
    /\ (mode = "normal" /\ Returned) =>
        /\ bodyEvals = 1
        /\ code.kind = "block"
        /\ Len(evals) = NDecls
        /\ Len(scope) = NDecls
        /\ \A j \in 1..NDecls :
              /\ MatchedAt(j)
              /\ scope[j].const_var = Decls[j].const_var
              /\ scope[j].value = evals[j].val
              /\ Lookup(scope, Decls[j].const_var) = evals[j].val
        /\ result.kind = "value"
        /\ oks = 0
        /\ result.val = ExpectedBody(source.return.fn, Vals)
        /\ (NDecls = 2 /\ source.return.fn = "sum_impl") =>
              result.val = (IF Vals[1] = 1 THEN 3 ELSE 0)
                           + (IF Vals[2] = 1 THEN 4 ELSE 0)

\* C2 witness: sum(3, 4, true, false) has returned 3
C2_Witness ==
    /\ mode = "normal" /\ Returned
    /\ NDecls = 2 /\ source.return.fn = "sum_impl"
    /\ Vals = <<1, 0>>
    /\ result.val = 3

\* C3: in try_constify, once declaration i is the first whose runtime value
\* matches no candidate, only the runtime expressions of declarations 1..i
\* have been evaluated, no later one is ever evaluated and the body never is;
\* the invocation produces the Err.
C3_ShortCircuit ==
    (mode = "error" /\ ~AllMatched) =>
        /\ Len(evals) = FirstMismatch
        /\ \A k \in 1..Len(evals) : evals[k].expr = k
        /\ bodyEvals = 0
        /\ code.kind = "err"
        /\ Returned => result.kind = "Err"
        /\ ~Returned => pc = "run"

\* C3 witness: the second of two declarations was the first mismatch, and the
\* Err has been returned without the body running
C3_Witness ==
    /\ mode = "error" /\ Returned /\ result.kind = "Err"
    /\ NDecls = 2 /\ Len(evals) = 2
    /\ bodyEvals = 0

\* C4 as stated: whichever arm is taken, a returned invocation of either
\* expander has evaluated every declaration's runtime expression, in declared
\* order, each exactly once.
C4_Original ==
    Returned => [i \in 1..Len(evals) |-> evals[i].expr] = [i \in 1..NDecls |-> i]

\* C4 amended: the runtime expressions are evaluated in declared order, each at
\* most once; every one exactly once when a candidate arm is taken at every
\* level (always in constify); when try_constify takes a catch-all arm at
\* declaration i, exactly those of declarations 1..i.
C4_OrderAmended ==
    /\ [i \in 1..Len(evals) |-> evals[i].expr] = [i \in 1..Len(evals) |-> i]
    /\ Len(evals) <= NDecls
    /\ (Returned /\ AllMatched) => Len(evals) = NDecls
    /\ (Returned /\ mode = "normal") => AllMatched
    /\ (Returned /\ ~AllMatched) => mode = "error" /\ Len(evals) = FirstMismatch

\* C4 witness: try_constify returned after the catch-all arm of the first of
\* two declarations, the second never evaluated
C4_Witness ==
    /\ Returned /\ ~AllMatched
    /\ NDecls = 2
    /\ [i \in 1..Len(evals) |-> evals[i].expr] = <<1>>

\* C5: when every runtime value equals a candidate, try_constify returns Ok(v)
\* with v the value constify returns on the same declarations and values, with
\* the same const bindings at the leaf and the same sequence of evaluations.
C5_ModeEquivalence ==
    (Returned /\ AllMatched) =>
        /\ NormalRun.kind = "value" /\ NormalRun.oks = 0
        /\ ErrorRun.kind = "value" /\ ErrorRun.oks = 1
        /\ ErrorRun.val = NormalRun.val
        /\ ErrorRun.scope = NormalRun.scope
        /\ ErrorRun.evals = NormalRun.evals
        /\ mode = "error" =>
              /\ result.kind = "value" /\ oks = 1
              /\ result.val = NormalRun.val
              /\ scope = NormalRun.scope
              /\ evals = NormalRun.evals
        /\ mode = "normal" =>
              /\ result.kind = "value" /\ oks = 0
              /\ result.val = ErrorRun.val
              /\ scope = ErrorRun.scope
              /\ evals = ErrorRun.evals

\* C5 witness: try_constify returned Ok after two declarations matched
C5_Witness ==
    /\ mode = "error" /\ Returned /\ result.kind = "value"
    /\ NDecls = 2 /\ Len(scope) = 2

\* C6: a constify expansion in which some candidate list does not cover every
\* value of its runtime expression is rejected by the build; an accepted one
\* never reaches a dispatch whose value matches no arm, never produces an Err
\* and never binds a candidate other than the runtime value.
C6_TotalExhaustive ==
    mode = "normal" =>
        /\ (\E j \in 1..NDecls : ~(TypeValues(Decls[j].const_ty) \subseteq CandSet(j)))
              => pc \in {"expanded", "rejected"}
        /\ pc = "rejected" =>
              \E j \in 1..NDecls : ~(TypeValues(Decls[j].const_ty) \subseteq CandSet(j))
        /\ (pc = "run" /\ code.kind = "match") =>
              \A v \in TypeValues(ScrutineeType(code)) : SelectArm(code, v) # 0
        /\ code.kind # "err"
        /\ result.kind # "Err"
        /\ oks = 0
        /\ Len(scope) = Len(evals)
        /\ \A i \in 1..Len(scope) : scope[i].value = evals[i].val

\* C6 witness: the build rejected a constify invocation whose first candidate
\* list covers bool and whose second does not
C6_Witness ==
    /\ mode = "normal" /\ pc = "rejected"
    /\ NDecls = 2
    /\ TypeValues(Decls[1].const_ty) \subseteq CandSet(1)
    /\ ~(TypeValues(Decls[2].const_ty) \subseteq CandSet(2))

\* C7: in both modes the expanded tree has one dispatch level per declaration,
\* one candidate arm per listed candidate at every level, and as many body
\* instantiations as the product of the candidate-list lengths (1 for no
\* declaration); the catch-all arms of try_constify add no leaf.
C7_TreeShape ==
    pc = "expanded" =>
        /\ LevelsFrom(code, 1)
        /\ Depth(code) = NDecls
        /\ Leaves(code) = CandProduct(1)

\* C7 witness: a try_constify expansion of two declarations of two candidates
\* each, with four leaves
C7_Witness ==
    /\ pc = "expanded" /\ mode = "error"
    /\ NDecls = 2
    /\ Len(Decls[1].const_expr) = 2 /\ Len(Decls[2].const_expr) = 2
    /\ Leaves(code) = 4

\* C9: with no declaration constify expands to the body unchanged and
\* try_constify to Ok(body), which never returns Err; for any number of
\* declarations the Ok wrapper is applied once, at the leaf, and at no
\* dispatch level.
C9_Terminal ==
    /\ (pc = "expanded" /\ NDecls = 0) =>
          /\ code.kind = "block"
          /\ code.block = source.return
          /\ code.wrap = (IF mode = "error" THEN 1 ELSE 0)
    /\ NDecls = 0 =>
          /\ result.kind # "Err" /\ code.kind # "err" /\ pc # "rejected"
          /\ Returned =>
                /\ result.kind = "value"
                /\ result.val = ExpectedBody(source.return.fn, <<>>)
                /\ oks = (IF mode = "error" THEN 1 ELSE 0)
                /\ bodyEvals = 1
    /\ (pc = "expanded" /\ mode = "error") => OkAtLeavesOnly(code)
    /\ (mode = "error" /\ Returned /\ result.kind = "value") => oks = 1
    /\ (mode = "error" /\ ~Returned) => oks = 0

\* C9 witness: try_constify with no declaration has returned Ok(body)
C9_Witness ==
    /\ mode = "error" /\ Returned
    /\ NDecls = 0
    /\ result.kind = "value" /\ oks = 1

\* C10: the runtime expression of declaration j is evaluated inside the arms
\* taken for declarations 1..j-1: every earlier name is then bound to the
\* candidate that matched its own runtime value and no later name is bound;
\* the normalization keeps the written order and content of the declarations.
C10_NestingScope ==
    /\ Len(Normalize(Decls)) = NDecls
    /\ \A j \in 1..NDecls : Normalize(Decls)[j].brace = Decls[j]
    /\ (pc = "run" /\ code.kind = "match") =>
          LET j == Len(evals) + 1
          IN  /\ j <= NDecls
              /\ code.match_val = Decls[j].match_val
              /\ ArmPats(code) = CandSet(j)
              /\ Len(scope) = j - 1
              /\ \A i \in 1..(j - 1) :
                    /\ MatchedAt(i)
                    /\ scope[i].const_var = Decls[i].const_var
                    /\ Lookup(scope, Decls[i].const_var) = evals[i].val
              /\ \A i \in j..NDecls : ~Bound(scope, Decls[i].const_var)

\* C10 witness: the second declaration's runtime expression is about to be
\* evaluated with the first name bound
C10_Witness ==
    /\ pc = "run" /\ code.kind = "match"
    /\ code.match_val = 2
    /\ Bound(scope, "A") /\ ~Bound(scope, "B")

====
